---- MODULE Spec2Model ----
(***************************************************************************)
(* Model of the ghostpirates agent core (apps/api/src/agents) and of the   *)
(* Team aggregate (apps/api/src/domain/team).                              *)
(*                                                                         *)
(* Strings that the code only copies or compares for equality are TLA+     *)
(* strings.  Skill names, which the code lower-cases and searches, are     *)
(* sequences of one-character strings.  Uuids are small naturals.          *)
(***************************************************************************)
EXTENDS Integers, Sequences, FiniteSets, TLC

\* ------------------------------------------------------------------ bounds

NumWorkers == 2
MaxTaskId == 2
NumDispatchers == 2
MaxRequired == 2

Workers == 1..NumWorkers
TaskIds == 1..MaxTaskId
Dispatchers == 1..NumDispatchers

\* Option<T>: None, or Some(x).
None == <<>>

Some(x) == <<x>>

\* The value of Ok(()) and the error of a call that returned no error.
Unit == "()"

NoError == ""

\* The record of a call: the operation, its receiver before the call, and the
\* AgentResult it returned. Before any call there is none.
NoCall ==
    [op |-> "none", worker |-> 0, task |-> 0, arg |-> Unit,
     pre_status |-> "", pre_task |-> None, ok |-> TRUE, err |-> NoError, val |-> Unit]

\* ------------------------------------------------------- agents/types.rs

Specialization ==
    {"Specialization::Researcher", "Specialization::Coder", "Specialization::Reviewer",
     "Specialization::Tester", "Specialization::Writer"}

SpecializationDisplay(s) ==
    CASE s = "Specialization::Researcher" -> "Researcher"
      [] s = "Specialization::Coder" -> "Coder"
      [] s = "Specialization::Reviewer" -> "Reviewer"
      [] s = "Specialization::Tester" -> "Tester"
      [] s = "Specialization::Writer" -> "Writer"

WorkerStatus == {"Idle", "Working", "Blocked"}

ReviewDecision == {"Approved", "RevisionRequested", "Rejected"}

\* ------------------------------------------------------ agents/errors.rs

AgentError ==
    {"LlmError", "InvalidTeamSize", "JsonError", "AgentNotFound", "TaskExecutionFailed",
     "InvalidStateTransition", "MessageDeliveryFailed", "ConfigError"}

\* ---------------------------------------------------------------- strings

Rust == <<"R", "u", "s", "t">>
ApiDesign == <<"A", "P", "I", " ", "d", "e", "s", "i", "g", "n">>
Testing == <<"T", "e", "s", "t", "i", "n", "g">>
QA == <<"Q", "A">>
CodeReview == <<"C", "o", "d", "e", " ", "r", "e", "v", "i", "e", "w">>
Python == <<"P", "y", "t", "h", "o", "n">>

UpperAscii ==
    <<"A", "B", "C", "D", "E", "F", "G", "H", "I", "J", "K", "L", "M",
      "N", "O", "P", "Q", "R", "S", "T", "U", "V", "W", "X", "Y", "Z">>

LowerAscii ==
    <<"a", "b", "c", "d", "e", "f", "g", "h", "i", "j", "k", "l", "m",
      "n", "o", "p", "q", "r", "s", "t", "u", "v", "w", "x", "y", "z">>

\* char::to_lowercase on the characters the model uses (ASCII).
ToLowerChar(c) ==
    IF \E i \in 1..Len(UpperAscii) : UpperAscii[i] = c
    THEN LowerAscii[CHOOSE i \in 1..Len(UpperAscii) : UpperAscii[i] = c]
    ELSE c

ToLowercaseIdentity(s) == s

RECURSIVE ToLowercase(_)
\* str::to_lowercase: a new string, each character lower-cased in order.
ToLowercase(s) ==
    IF s = <<>> THEN <<>> ELSE <<ToLowerChar(Head(s))>> \o ToLowercase(Tail(s))

RECURSIVE StartsWith(_, _)
StartsWith(hay, needle) ==
    IF needle = <<>> THEN TRUE
    ELSE IF hay = <<>> THEN FALSE
    ELSE Head(hay) = Head(needle) /\ StartsWith(Tail(hay), Tail(needle))

RECURSIVE Contains(_, _)
\* str::contains(&String): the needle occurs at some offset of the haystack.
Contains(hay, needle) ==
    IF StartsWith(hay, needle) THEN TRUE
    ELSE IF hay = <<>> THEN FALSE
    ELSE Contains(Tail(hay), needle)

\* ------------------------------------------------- agents/manager.rs (mock)

TeamId == "team-1"

CoderSpec ==
    [specialization |-> "Coder", skills |-> <<Rust, ApiDesign>>,
     responsibilities |-> <<"Implement features">>, required_tools |-> <<"cargo">>]

TesterSpec ==
    [specialization |-> "Tester", skills |-> <<Testing, QA>>,
     responsibilities |-> <<"Verify functionality">>, required_tools |-> <<"cargo test">>]

ReviewerSpec ==
    [specialization |-> "Reviewer", skills |-> <<CodeReview>>,
     responsibilities |-> <<"Review code quality">>, required_tools |-> <<"clippy">>]

\* A spec whose specialization the Reasoning Port made up.
PlannerSpec ==
    [specialization |-> "Planner", skills |-> <<>>,
     responsibilities |-> <<>>, required_tools |-> <<>>]

\* The WorkerSpecs workers are created from in the lifecycle specifications.
InitSpecs == {CoderSpec, TesterSpec, PlannerSpec}

\* ------------------------------------------------------ agents/worker.rs

VARIABLES
    workers,    \* worker id -> WorkerAgent
    output,     \* the TaskOutput last returned by execute_task, or None
    ret,        \* the last call: operation, arguments, receiver before it, result
    dpc,        \* dispatcher -> position in its assign_task call
    dargs,      \* dispatcher -> [worker, task] of its call
    dres,       \* dispatcher -> result of its call
    borrow,     \* worker -> the dispatcher holding &mut on it, or None
    team,       \* the Team aggregate
    now,        \* the clock Utc::now() reads
    task_required,   \* task id -> the skills the task requires
    events,     \* the AgentEvents published so far, in order
    reviews,    \* task id -> how often an output of the task was Approved
    db_teams,   \* the teams table: team id -> the stored row, or None
    db_users    \* the users table: email -> the stored row, or None

vars ==
    <<workers, output, ret, dpc, dargs, dres, borrow, team, now, task_required, events,
      reviews, db_teams, db_users>>

TeamVars == <<team, now>>

SchedVars == <<task_required, events, reviews>>

StoreVars == <<db_teams, db_users>>

\* ------------------------------------------- domain/team/value_objects.rs

TeamStatus == {"Pending", "Planning", "Active", "Completed", "Failed", "Archived"}

CanTransitionToSkipsPlanning(self, next) ==
    <<self, next>> \in
        {<<"Pending", "Planning">>, <<"Pending", "Active">>, <<"Planning", "Active">>,
         <<"Active", "Completed">>, <<"Active", "Failed">>,
         <<"Completed", "Archived">>, <<"Failed", "Archived">>}

CanTransitionToReopensFailed(self, next) ==
    <<self, next>> \in
        {<<"Pending", "Planning">>, <<"Planning", "Active">>, <<"Active", "Completed">>,
         <<"Active", "Failed">>, <<"Completed", "Archived">>, <<"Failed", "Archived">>,
         <<"Failed", "Pending">>}

\* TeamStatus::can_transition_to: the matches! on (self, next).
CanTransitionTo(self, next) ==
    \/ self = "Pending" /\ next = "Planning"
    \/ self = "Planning" /\ next = "Active"
    \/ self = "Active" /\ next = "Completed"
    \/ self = "Active" /\ next = "Failed"
    \/ self = "Completed" /\ next = "Archived"
    \/ self = "Failed" /\ next = "Archived"

\* ---------------------------------------------------- domain/team/team.rs

CompanyId == "company-1"
CreatedBy == "user-1"

TeamNewFnAllowsZeroBudget(company_id, goal, created_by, budget_limit, clock) ==
    IF goal = ""
    THEN [ok |-> FALSE, err |-> "Goal cannot be empty", val |-> Unit]
    ELSE IF budget_limit # None /\ budget_limit[1] < 0
    THEN [ok |-> FALSE, err |-> "Budget must be positive", val |-> Unit]
    ELSE [ok |-> TRUE, err |-> NoError,
          val |-> [team |-> [id |-> TeamId, company_id |-> company_id, goal |-> goal,
                             status |-> "Pending", manager_agent_id |-> None,
                             created_by |-> created_by, created_at |-> clock,
                             started_at |-> None, completed_at |-> None,
                             budget_limit |-> budget_limit],
                   events |-> <<[event |-> "Created", team_id |-> TeamId,
                                 company_id |-> company_id, goal |-> goal,
                                 created_by |-> created_by]>>]]

TeamNewFnStartsPlanning(company_id, goal, created_by, budget_limit, clock) ==
    IF goal = ""
    THEN [ok |-> FALSE, err |-> "Goal cannot be empty", val |-> Unit]
    ELSE IF budget_limit # None /\ budget_limit[1] <= 0
    THEN [ok |-> FALSE, err |-> "Budget must be positive", val |-> Unit]
    ELSE [ok |-> TRUE, err |-> NoError,
          val |-> [team |-> [id |-> TeamId, company_id |-> company_id, goal |-> goal,
                             status |-> "Planning", manager_agent_id |-> None,
                             created_by |-> created_by, created_at |-> clock,
                             started_at |-> None, completed_at |-> None,
                             budget_limit |-> budget_limit],
                   events |-> <<[event |-> "Created", team_id |-> TeamId,
                                 company_id |-> company_id, goal |-> goal,
                                 created_by |-> created_by],
                                [event |-> "Started", team_id |-> TeamId]>>]]

\* Team::new; clock is what Utc::now() returns.
TeamNewFn(company_id, goal, created_by, budget_limit, clock) ==
    IF goal = ""
    THEN [ok |-> FALSE, err |-> "Goal cannot be empty", val |-> Unit]
    ELSE IF budget_limit # None /\ budget_limit[1] <= 0
    THEN [ok |-> FALSE, err |-> "Budget must be positive", val |-> Unit]
    ELSE [ok |-> TRUE, err |-> NoError,
          val |-> [team |-> [id |-> TeamId, company_id |-> company_id, goal |-> goal,
                             status |-> "Pending", manager_agent_id |-> None,
                             created_by |-> created_by, created_at |-> clock,
                             started_at |-> None, completed_at |-> None,
                             budget_limit |-> budget_limit],
                   events |-> <<[event |-> "Created", team_id |-> TeamId,
                                 company_id |-> company_id, goal |-> goal,
                                 created_by |-> created_by]>>]]

\* Team::from_persistence: the fields as given, nothing validated.
FromPersistence(id, company_id, goal, status, manager_agent_id, created_by, created_at, started_at, completed_at, budget_limit) ==
    [id |-> id, company_id |-> company_id, goal |-> goal, status |-> status,
     manager_agent_id |-> manager_agent_id, created_by |-> created_by,
     created_at |-> created_at, started_at |-> started_at,
     completed_at |-> completed_at, budget_limit |-> budget_limit]

StartFnFromPending(self, clock) ==
    IF self.status \notin {"Pending", "Planning"}
    THEN [self |-> self, ok |-> FALSE,
          err |-> "Cannot start team in " \o self.status \o " status", val |-> Unit]
    ELSE [self |-> [self EXCEPT !.status = "Active", !.started_at = Some(clock)],
          ok |-> TRUE, err |-> NoError,
          val |-> [event |-> "Started", team_id |-> self.id]]

\* Team::start.
StartFn(self, clock) ==
    IF ~CanTransitionTo(self.status, "Active")
    THEN [self |-> self, ok |-> FALSE,
          err |-> "Cannot start team in " \o self.status \o " status", val |-> Unit]
    ELSE [self |-> [self EXCEPT !.status = "Active", !.started_at = Some(clock)],
          ok |-> TRUE, err |-> NoError,
          val |-> [event |-> "Started", team_id |-> self.id]]

CompleteFnKeepsCompletedAt(self, clock) ==
    IF ~CanTransitionTo(self.status, "Completed")
    THEN [self |-> self, ok |-> FALSE,
          err |-> "Cannot complete team in " \o self.status \o " status", val |-> Unit]
    ELSE [self |-> [self EXCEPT !.status = "Completed"],
          ok |-> TRUE, err |-> NoError,
          val |-> [event |-> "Completed", team_id |-> self.id]]

\* Team::complete.
CompleteFn(self, clock) ==
    IF ~CanTransitionTo(self.status, "Completed")
    THEN [self |-> self, ok |-> FALSE,
          err |-> "Cannot complete team in " \o self.status \o " status", val |-> Unit]
    ELSE [self |-> [self EXCEPT !.status = "Completed", !.completed_at = Some(clock)],
          ok |-> TRUE, err |-> NoError,
          val |-> [event |-> "Completed", team_id |-> self.id]]

FailFnStampsBeforeCheck(self, reason, clock) ==
    IF ~CanTransitionTo(self.status, "Failed")
    THEN [self |-> [self EXCEPT !.completed_at = Some(clock)], ok |-> FALSE,
          err |-> "Cannot fail team in " \o self.status \o " status", val |-> Unit]
    ELSE [self |-> [self EXCEPT !.status = "Failed", !.completed_at = Some(clock)],
          ok |-> TRUE, err |-> NoError,
          val |-> [event |-> "Failed", team_id |-> self.id, reason |-> reason]]

\* Team::fail.
FailFn(self, reason, clock) ==
    IF ~CanTransitionTo(self.status, "Failed")
    THEN [self |-> self, ok |-> FALSE,
          err |-> "Cannot fail team in " \o self.status \o " status", val |-> Unit]
    ELSE [self |-> [self EXCEPT !.status = "Failed", !.completed_at = Some(clock)],
          ok |-> TRUE, err |-> NoError,
          val |-> [event |-> "Failed", team_id |-> self.id, reason |-> reason]]

Reasons == {"budget exhausted"}

\* A team just made by Team::new, at time 0.
InitTeam ==
    /\ team = TeamNewFn(CompanyId, "Complete mission", CreatedBy, None, 0).val.team
    /\ now = 0

\* No task requires a skill, nothing was published, nothing was reviewed.
InitSched ==
    /\ task_required = [t \in TaskIds |-> <<>>]
    /\ events = <<>>
    /\ reviews = [t \in TaskIds |-> 0]

StoredTeamIds == {TeamId, "team-2"}

\* Email addresses, as the characters Email::is_valid looks at.
UserEmail == <<"u", "@", "t", ".", "c", "o">>
StoredEmails == {UserEmail, <<"a", "@", "b">>}

\* The teams table and the users table with no row.
InitStore ==
    /\ db_teams = [id \in StoredTeamIds |-> None]
    /\ db_users = [e \in StoredEmails |-> None]

FromSpecSpecializationLoose(name) ==
    CASE name \in {"Researcher", "researcher"} -> "Specialization::Researcher"
      [] name \in {"Coder", "coder"} -> "Specialization::Coder"
      [] name \in {"Reviewer", "reviewer"} -> "Specialization::Reviewer"
      [] name \in {"Tester", "tester"} -> "Specialization::Tester"
      [] name \in {"Writer", "writer"} -> "Specialization::Writer"
      [] OTHER -> "Specialization::Researcher"

\* The match of from_spec on spec.specialization.as_str().
FromSpecSpecialization(name) ==
    CASE name = "Researcher" -> "Specialization::Researcher"
      [] name = "Coder" -> "Specialization::Coder"
      [] name = "Reviewer" -> "Specialization::Reviewer"
      [] name = "Tester" -> "Specialization::Tester"
      [] name = "Writer" -> "Specialization::Writer"
      [] OTHER -> "Specialization::Researcher"

\* WorkerAgent::from_spec; id is the fresh Uuid.
FromSpec(id, team_id, spec) ==
    [id |-> id,
     team_id |-> team_id,
     specialization |-> FromSpecSpecialization(spec.specialization),
     skills |-> spec.skills,
     responsibilities |-> spec.responsibilities,
     required_tools |-> spec.required_tools,
     status |-> "Idle",
     assigned_task_id |-> None]

AssignTaskRefusesWorkingOnly(self) == self.status = "Working"

\* assign_task, line 46: the early return.
AssignTaskRefuses(self) == self.status # "Idle"

AssignTaskWriteStatusOnly(self, task_id) == [self EXCEPT !.status = "Working"]

\* assign_task, lines 52-53.
AssignTaskWrite(self, task_id) ==
    [self EXCEPT !.assigned_task_id = Some(task_id), !.status = "Working"]

\* assign_task as one call on an exclusively borrowed worker.
AssignTaskFn(self, task_id) ==
    IF AssignTaskRefuses(self)
    THEN [self |-> self, ok |-> FALSE, err |-> "TaskExecutionFailed", val |-> Unit]
    ELSE [self |-> AssignTaskWrite(self, task_id), ok |-> TRUE, err |-> NoError, val |-> Unit]

\* get_status.
GetStatus(self) == self.status

ExecuteTaskRefusesNotWorking(self) == self.status # "Working"

\* execute_task, line 75: the early return.
ExecuteTaskRefuses(self) == self.assigned_task_id = None

ExecuteTaskFreesWorker(self) == [self EXCEPT !.status = "Idle", !.assigned_task_id = None]

\* execute_task takes &mut self and writes nothing to it.
ExecuteTaskSelf(self) == self

\* execute_task: the mock TaskOutput carries the task_id argument.
ExecuteTaskFn(self, task_id) ==
    IF ExecuteTaskRefuses(self)
    THEN [self |-> self, ok |-> FALSE, err |-> "TaskExecutionFailed", val |-> Unit]
    ELSE [self |-> ExecuteTaskSelf(self), ok |-> TRUE, err |-> NoError,
          val |-> [task_id |-> task_id, worker_id |-> self.id, result |-> "completed",
                   artifacts |-> <<>>, logs |-> <<"Task executed successfully">>,
                   metadata |-> "{}"]]

\* report_progress: the fields the formatted line shows.
ReportProgressFn(self) ==
    [self |-> self, ok |-> TRUE, err |-> NoError,
     val |-> <<self.id, SpecializationDisplay(self.specialization), self.status,
               self.assigned_task_id>>]

\* ManagerAgent::review_task: approves everything, reads and writes no state.
ReviewTaskFn(task_id, out) == [ok |-> TRUE, err |-> NoError, val |-> "Approved"]

Returned(op, self, task, arg, r) ==
    [op |-> op, worker |-> self.id, task |-> task, arg |-> arg,
     pre_status |-> self.status, pre_task |-> self.assigned_task_id,
     ok |-> r.ok, err |-> r.err, val |-> r.val]

DispatchVars == <<dpc, dargs, dres, borrow>>

AssignTask(w, t) ==
    /\ LET r == AssignTaskFn(workers[w], t) IN
         /\ workers' = [workers EXCEPT ![w] = r.self]
         /\ ret' = Returned("assign_task", workers[w], t, Unit, r)
    /\ UNCHANGED <<output, DispatchVars>>
    /\ UNCHANGED <<TeamVars, SchedVars, StoreVars>>

ExecuteTask(w, t) ==
    /\ LET r == ExecuteTaskFn(workers[w], t) IN
         /\ workers' = [workers EXCEPT ![w] = r.self]
         /\ ret' = Returned("execute_task", workers[w], t, Unit, r)
         /\ output' = IF r.ok THEN Some(r.val) ELSE output
    /\ UNCHANGED DispatchVars
    /\ UNCHANGED <<TeamVars, SchedVars, StoreVars>>

ReportProgress(w) ==
    /\ LET r == ReportProgressFn(workers[w]) IN
         /\ workers' = [workers EXCEPT ![w] = r.self]
         /\ ret' = Returned("report_progress", workers[w], 0, Unit, r)
    /\ UNCHANGED <<output, DispatchVars>>
    /\ UNCHANGED <<TeamVars, SchedVars, StoreVars>>

\* The manager reviews the TaskOutput a worker returned.
ReviewTask ==
    /\ output # None
    /\ LET out == output[1]
           r == ReviewTaskFn(out.task_id, out) IN
         ret' = Returned("review_task", workers[out.worker_id], out.task_id, Unit, r)
    /\ UNCHANGED <<workers, output, DispatchVars>>
    /\ UNCHANGED <<TeamVars, SchedVars, StoreVars>>

InitDispatch ==
    /\ dpc = [d \in Dispatchers |-> "ready"]
    /\ dargs = [d \in Dispatchers |-> [worker |-> 0, task |-> 0]]
    /\ dres = [d \in Dispatchers |-> "Pending"]
    /\ borrow = [w \in Workers |-> None]

\* Every worker was just created by from_spec from some WorkerSpec.
Init ==
    /\ \E f \in [Workers -> InitSpecs] :
         workers = [w \in Workers |-> FromSpec(w, TeamId, f[w])]
    /\ output = None
    /\ ret = NoCall
    /\ InitDispatch
    /\ InitTeam
    /\ InitSched
    /\ InitStore

Next ==
    \/ \E w \in Workers, t \in TaskIds : AssignTask(w, t)
    \/ \E w \in Workers, t \in TaskIds : ExecuteTask(w, t)
    \/ \E w \in Workers : ReportProgress(w)
    \/ ReviewTask

Spec == Init /\ [][Next]_vars

\* ------------------------------------------- any WorkerAgent value at all

\* WorkerAgent derives Deserialize and its fields are pub: a caller can hold a
\* worker with any status and any assigned_task_id.
Deserialized(id, status, assigned_task_id) ==
    [FromSpec(id, TeamId, CoderSpec) EXCEPT
       !.status = status, !.assigned_task_id = assigned_task_id]

OptionTaskIds == {None} \cup {Some(t) : t \in TaskIds}

InitAny ==
    /\ \E st \in [Workers -> WorkerStatus], at \in [Workers -> OptionTaskIds] :
         workers = [w \in Workers |-> Deserialized(w, st[w], at[w])]
    /\ output = None
    /\ ret = NoCall
    /\ InitDispatch
    /\ InitTeam
    /\ InitSched
    /\ InitStore

SpecAny == InitAny /\ [][Next]_vars

\* ----------------------------------- concurrent dispatch decisions (&mut)

ExclusiveBorrowUnchecked(w) == TRUE

\* assign_task takes &mut self: a call starts only while no other call holds
\* the worker, and holds it until it returns.
ExclusiveBorrow(w) == borrow[w] = None

\* Dispatcher d decides to assign task t to worker w and enters assign_task.
AssignCall(d, w, t) ==
    /\ dpc[d] = "ready"
    /\ ExclusiveBorrow(w)
    /\ dpc' = [dpc EXCEPT ![d] = "check"]
    /\ dargs' = [dargs EXCEPT ![d] = [worker |-> w, task |-> t]]
    /\ borrow' = [borrow EXCEPT ![w] = Some(d)]
    /\ UNCHANGED <<workers, output, ret, dres>>
    /\ UNCHANGED <<TeamVars, SchedVars, StoreVars>>

\* Line 46: the status test, and the early return.
AssignCheck(d) ==
    /\ dpc[d] = "check"
    /\ IF AssignTaskRefuses(workers[dargs[d].worker])
       THEN /\ dpc' = [dpc EXCEPT ![d] = "done"]
            /\ dres' = [dres EXCEPT ![d] = "TaskExecutionFailed"]
            /\ borrow' = [borrow EXCEPT ![dargs[d].worker] = None]
       ELSE /\ dpc' = [dpc EXCEPT ![d] = "write"]
            /\ UNCHANGED <<dres, borrow>>
    /\ UNCHANGED <<workers, output, ret, dargs>>
    /\ UNCHANGED <<TeamVars, SchedVars, StoreVars>>

\* Lines 52-54: the two writes, and the return of Ok(()).
AssignWrite(d) ==
    /\ dpc[d] = "write"
    /\ workers' = [workers EXCEPT ![dargs[d].worker] =
                     AssignTaskWrite(workers[dargs[d].worker], dargs[d].task)]
    /\ dpc' = [dpc EXCEPT ![d] = "done"]
    /\ dres' = [dres EXCEPT ![d] = "Ok"]
    /\ borrow' = [borrow EXCEPT ![dargs[d].worker] = None]
    /\ UNCHANGED <<output, ret, dargs>>
    /\ UNCHANGED <<TeamVars, SchedVars, StoreVars>>

NextConc ==
    \/ \E d \in Dispatchers, w \in Workers, t \in TaskIds : AssignCall(d, w, t)
    \/ \E d \in Dispatchers : AssignCheck(d)
    \/ \E d \in Dispatchers : AssignWrite(d)

SpecConc == Init /\ [][NextConc]_vars

\* ------------------------------------- single calls of the pure functions

RustLower == <<"r", "u", "s", "t">>
Rusty == <<"R", "u", "s", "t", "y">>
QaLower == <<"q", "a">>
DesignUpper == <<"D", "E", "S", "I", "G", "N">>
JavaScript == <<"J", "a", "v", "a", "S", "c", "r", "i", "p", "t">>
EmptyString == <<>>

\* The spec of test_can_handle_task.
RustPythonSpec ==
    [specialization |-> "Coder", skills |-> <<Rust, Python>>,
     responsibilities |-> <<>>, required_tools |-> <<>>]

SkillSpecs == {CoderSpec, TesterSpec, PlannerSpec, RustPythonSpec}

RequiredPool == {Rust, RustLower, Rusty, QaLower, DesignUpper, JavaScript, EmptyString}

RequiredLists == UNION {[1..n -> RequiredPool] : n \in 0..MaxRequired}

SpecializationNames ==
    {"Researcher", "Coder", "Reviewer", "Tester", "Writer",
     "coder", "CODER", "Code", "Tester ", "Planner", "Manager", ""}

AnySpecs == {[TesterSpec EXCEPT !.specialization = n] : n \in SpecializationNames}

\* analyze_goal's mock analysis, the analysis of the form_team test, and one
\* that asks for more specializations than a team may have.
Analyses ==
    {[core_objective |-> "Placeholder goal analysis",
      required_specializations |-> <<"Coder", "Tester">>],
     [core_objective |-> "Test goal", required_specializations |-> <<>>],
     [core_objective |-> "Big goal",
      required_specializations |->
          <<"Researcher", "Coder", "Reviewer", "Tester", "Writer", "Planner">>]}

RECURSIVE AnySkillContainsEitherWay(_, _)
AnySkillContainsEitherWay(skills, req_skill) ==
    IF skills = <<>> THEN FALSE
    ELSE IF \/ Contains(ToLowercase(Head(skills)), ToLowercase(req_skill))
            \/ Contains(ToLowercase(req_skill), ToLowercase(Head(skills)))
         THEN TRUE
    ELSE AnySkillContainsEitherWay(Tail(skills), req_skill)

RECURSIVE AnySkillContains(_, _)
\* self.skills.iter().any(|skill| skill.to_lowercase().contains(&req.to_lowercase()))
AnySkillContains(skills, req_skill) ==
    IF skills = <<>> THEN FALSE
    ELSE IF Contains(ToLowercase(Head(skills)), ToLowercase(req_skill)) THEN TRUE
    ELSE AnySkillContains(Tail(skills), req_skill)

RECURSIVE AnyRequired(_, _)
\* required_skills.iter().any(|req_skill| ...)
AnyRequired(skills, required_skills) ==
    IF required_skills = <<>> THEN FALSE
    ELSE IF AnySkillContains(skills, Head(required_skills)) THEN TRUE
    ELSE AnyRequired(skills, Tail(required_skills))

\* can_handle_task.
CanHandleTaskFn(self, required_skills) ==
    [self |-> self, ok |-> TRUE, err |-> NoError,
     val |-> AnyRequired(self.skills, required_skills)]

FormTeamTwoWorkers(analysis) ==
    [ok |-> TRUE, err |-> NoError, val |-> <<CoderSpec, TesterSpec>>]

\* ManagerAgent::form_team: the mock team, whatever the analysis.
FormTeamFn(analysis) ==
    [ok |-> TRUE, err |-> NoError, val |-> <<CoderSpec, TesterSpec, ReviewerSpec>>]

FirstCall == ret.op = "none"

CanHandleTask(w, required_skills) ==
    /\ FirstCall
    /\ LET r == CanHandleTaskFn(workers[w], required_skills) IN
         /\ workers' = [workers EXCEPT ![w] = r.self]
         /\ ret' = Returned("can_handle_task", workers[w], 0, required_skills, r)
    /\ UNCHANGED <<output, DispatchVars>>
    /\ UNCHANGED <<TeamVars, SchedVars, StoreVars>>

\* A caller replaces worker w by one made from spec.
CreateWorker(w, spec) ==
    /\ FirstCall
    /\ workers' = [workers EXCEPT ![w] = FromSpec(w, TeamId, spec)]
    /\ ret' = Returned("from_spec", workers[w], 0, spec,
                       [ok |-> TRUE, err |-> NoError, val |-> Unit])
    /\ UNCHANGED <<output, DispatchVars>>
    /\ UNCHANGED <<TeamVars, SchedVars, StoreVars>>

FormTeam(analysis) ==
    /\ FirstCall
    /\ ret' = [NoCall EXCEPT !.op = "form_team", !.arg = analysis,
                 !.ok = FormTeamFn(analysis).ok, !.err = FormTeamFn(analysis).err,
                 !.val = FormTeamFn(analysis).val]
    /\ UNCHANGED <<workers, output, DispatchVars>>
    /\ UNCHANGED <<TeamVars, SchedVars, StoreVars>>

\* ----------------------------------------------------- agents/prompts.rs

\* A user_template is its text cut at the placeholders: the placeholder
\* {{goal}} is the piece "{{goal}}", every other piece is plain text.
Placeholder(name) == "{{" \o name \o "}}"

\* library::goal_analysis.
GoalAnalysisTemplate ==
    [name |-> "goal_analysis", version |-> "1.0.0",
     user_template |-> <<"Goal: ", Placeholder("goal"), "\n\nProvide:\n1. Core objective">>]

\* library::team_formation.
TeamFormationTemplate ==
    [name |-> "team_formation", version |-> "1.0.0",
     user_template |-> <<"Goal: ", Placeholder("goal"), "\nSubtasks: ",
                         Placeholder("subtasks"), "\n\nCreate 3-5 specialized workers.">>]

\* library::task_decomposition.
TaskDecompositionTemplate ==
    [name |-> "task_decomposition", version |-> "1.0.0",
     user_template |-> <<"Goal: ", Placeholder("goal"), "\n\nFor each task provide:">>]

Templates == {GoalAnalysisTemplate, TeamFormationTemplate, TaskDecompositionTemplate}

VariableNames == {"goal", "subtasks", "deadline"}

VariableValues == {"Build a scraper", ""}

\* The HashMap<String, String> arguments of render.
VariableMaps == UNION {[names -> VariableValues] : names \in SUBSET VariableNames}

\* PromptTemplate::render: a clone of user_template; the variables are unused.
RenderFn(self, variables) == [ok |-> TRUE, err |-> NoError, val |-> self.user_template]

Render(template, variables) ==
    /\ FirstCall
    /\ ret' = [NoCall EXCEPT !.op = "render",
                 !.arg = [template |-> template, variables |-> variables],
                 !.val = RenderFn(template, variables).val]
    /\ UNCHANGED <<workers, output, DispatchVars>>
    /\ UNCHANGED <<TeamVars, SchedVars, StoreVars>>

\* One call of TeamStatus::can_transition_to.
CanTransition(self, next) ==
    /\ FirstCall
    /\ ret' = [NoCall EXCEPT !.op = "can_transition_to", !.arg = <<self, next>>,
                 !.val = CanTransitionTo(self, next)]
    /\ UNCHANGED <<workers, output, DispatchVars>>
    /\ UNCHANGED <<TeamVars, SchedVars, StoreVars>>

InitPure ==
    /\ \E f \in [Workers -> SkillSpecs] :
         workers = [w \in Workers |-> FromSpec(w, TeamId, f[w])]
    /\ output = None
    /\ ret = NoCall
    /\ InitDispatch
    /\ InitTeam
    /\ InitSched
    /\ InitStore

NextPure ==
    \/ \E w \in Workers, r \in RequiredLists : CanHandleTask(w, r)
    \/ \E w \in Workers, s \in AnySpecs : CreateWorker(w, s)
    \/ \E a \in Analyses : FormTeam(a)
    \/ \E tpl \in Templates, m \in VariableMaps : Render(tpl, m)
    \/ \E a \in TeamStatus, b \in TeamStatus : CanTransition(a, b)

SpecPure == InitPure /\ [][NextPure]_vars

\* ------------------------------------ attempted status transitions

TeamReturned(op, self, arg, r) ==
    [op |-> op, worker |-> 0, task |-> 0, arg |-> arg,
     pre_status |-> self.status, pre_task |-> None,
     ok |-> r.ok, err |-> r.err, val |-> r.val]

WorkerSide == <<workers, output, dpc, dargs, dres, borrow>>

TeamStart ==
    /\ LET r == StartFn(team, now) IN
         /\ team' = r.self
         /\ ret' = TeamReturned("Team::start", team, Unit, r)
    /\ UNCHANGED <<now, WorkerSide, SchedVars, StoreVars>>

TeamComplete ==
    /\ LET r == CompleteFn(team, now) IN
         /\ team' = r.self
         /\ ret' = TeamReturned("Team::complete", team, Unit, r)
    /\ UNCHANGED <<now, WorkerSide, SchedVars, StoreVars>>

TeamFail(reason) ==
    /\ LET r == FailFn(team, reason, now) IN
         /\ team' = r.self
         /\ ret' = TeamReturned("Team::fail", team, reason, r)
    /\ UNCHANGED <<now, WorkerSide, SchedVars, StoreVars>>

\* Workers of any status, and a team loaded from the store in any status.
InitTransitions ==
    /\ \E st \in [Workers -> WorkerStatus], at \in [Workers -> OptionTaskIds] :
         workers = [w \in Workers |-> Deserialized(w, st[w], at[w])]
    /\ output = None
    /\ ret = NoCall
    /\ InitDispatch
    /\ \E status \in TeamStatus :
         team = FromPersistence(TeamId, CompanyId, "Complete mission", status, None,
                                CreatedBy, 0, None, None, None)
    /\ now = 0
    /\ InitSched
    /\ InitStore

NextTransitions ==
    \/ \E w \in Workers, t \in TaskIds : AssignTask(w, t)
    \/ TeamStart
    \/ TeamComplete
    \/ \E reason \in Reasons : TeamFail(reason)

SpecTransitions == InitTransitions /\ [][NextTransitions]_vars

\* ------------------------------- the dispatch / execute / review cycle

MaxReviews == 2

\* The required skills a task may carry.
TaskSkills == {<<RustLower>>, <<QaLower>>, <<Rusty>>, <<JavaScript>>}

\* The Idle workers whose can_handle_task accepts the task's required skills.
IdleCapable(t) ==
    {w \in Workers :
        GetStatus(workers[w]) = "Idle" /\ CanHandleTaskFn(workers[w], task_required[t]).val}

TaskHeld(t) == \E w \in Workers : workers[w].assigned_task_id = Some(t)

\* A task is Pending until a worker holds it; it is Approved once review_task
\* approved an output of it.
TaskPending(t) == ~TaskHeld(t) /\ reviews[t] = 0

TaskApproved(t) == reviews[t] > 0

FirstWorker(S) == CHOOSE w \in S : \A v \in S : w <= v

\* One dispatch of Pending task t: the first Idle worker, by ascending id, that
\* can handle it is assigned the task and TaskAssigned is published; with no
\* such worker nothing is called.
Dispatch(t) ==
    /\ TaskPending(t)
    /\ IF IdleCapable(t) = {}
       THEN /\ ret' = [NoCall EXCEPT !.op = "dispatch", !.task = t, !.arg = task_required[t]]
            /\ UNCHANGED <<workers, events>>
       ELSE LET w == FirstWorker(IdleCapable(t))
                r == AssignTaskFn(workers[w], t) IN
            /\ workers' = [workers EXCEPT ![w] = r.self]
            /\ ret' = Returned("dispatch", workers[w], t, task_required[t], r)
            /\ events' = IF r.ok
                         THEN Append(events, [event |-> "TaskAssigned", task_id |-> t,
                                              worker_id |-> w])
                         ELSE events
    /\ UNCHANGED <<output, DispatchVars, TeamVars, task_required, reviews, StoreVars>>

\* A worker that holds a task executes that task.
ExecuteAssigned(w) ==
    /\ workers[w].assigned_task_id # None
    /\ ExecuteTask(w, workers[w].assigned_task_id[1])

ReviewTaskPublishesCompleted(task_id, out) ==
    <<[event |-> "TaskCompleted", task_id |-> task_id, worker_id |-> out.worker_id]>>

\* The events review_task publishes: it publishes nothing.
ReviewTaskEvents(task_id, out) == <<>>

\* The TaskOutput is forwarded to review_task and the decision is recorded.
\* WorkerAgent has no operation that gives a task back, so the worker is left
\* as it is.
ReviewOutput ==
    /\ output # None
    /\ reviews[output[1].task_id] < MaxReviews
    /\ LET out == output[1]
           r == ReviewTaskFn(out.task_id, out) IN
         /\ ret' = Returned("review_task", workers[out.worker_id], out.task_id, Unit, r)
         /\ reviews' = IF r.ok /\ r.val = "Approved"
                       THEN [reviews EXCEPT ![out.task_id] = @ + 1]
                       ELSE reviews
         /\ events' = events \o ReviewTaskEvents(out.task_id, out)
    /\ UNCHANGED <<workers, output, DispatchVars, TeamVars, task_required, StoreVars>>

\* The workers of the team form_team returns, just created, and tasks with
\* their required skills.
InitCycle ==
    /\ \E a \in Analyses :
         workers = [w \in Workers |-> FromSpec(w, TeamId, FormTeamFn(a).val[w])]
    /\ output = None
    /\ ret = NoCall
    /\ InitDispatch
    /\ InitTeam
    /\ task_required \in [TaskIds -> TaskSkills]
    /\ events = <<>>
    /\ reviews = [t \in TaskIds |-> 0]
    /\ InitStore

NextCycle ==
    \/ \E t \in TaskIds : Dispatch(t)
    \/ \E w \in Workers : ExecuteAssigned(w)
    \/ ReviewOutput

SpecCycle == InitCycle /\ [][NextCycle]_vars

\* Fair scheduling: a step of the cycle that is possible again and again is
\* taken.
SpecCycleFair ==
    /\ SpecCycle
    /\ \A t \in TaskIds : SF_vars(Dispatch(t))
    /\ \A w \in Workers : SF_vars(ExecuteAssigned(w))
    /\ SF_vars(ReviewOutput)

\* ------------------------------------------- the Team aggregate's API

MaxBudget == 1

OtherCompanyId == "company-2"

Goals == {"", "Complete mission"}

\* Option<Decimal>: no limit, or a negative, zero or positive amount.
Budgets == {None} \cup {Some(b) : b \in -1..MaxBudget}

\* One call of Team::new; the team it returns replaces the one held.
TeamNew(company_id, goal, created_by, budget_limit) ==
    /\ LET r == TeamNewFn(company_id, goal, created_by, budget_limit, now) IN
         /\ team' = IF r.ok THEN r.val.team ELSE team
         /\ ret' = TeamReturned("Team::new", team,
                                [company_id |-> company_id, goal |-> goal,
                                 created_by |-> created_by, budget_limit |-> budget_limit], r)
    /\ UNCHANGED <<now, WorkerSide, SchedVars, StoreVars>>

\* A repository reconstructs a stored team with Team::from_persistence.
TeamLoad(company_id, goal, status, budget_limit) ==
    /\ team' = FromPersistence(TeamId, company_id, goal, status, None, CreatedBy, 0,
                               None, None, budget_limit)
    /\ ret' = TeamReturned("Team::from_persistence", team,
                           [company_id |-> company_id, goal |-> goal,
                            created_by |-> CreatedBy, budget_limit |-> budget_limit],
                           [ok |-> TRUE, err |-> NoError, val |-> Unit])
    /\ UNCHANGED <<now, WorkerSide, SchedVars, StoreVars>>

InitTeamApi ==
    /\ \E a \in Analyses :
         workers = [w \in Workers |-> FromSpec(w, TeamId, FormTeamFn(a).val[w])]
    /\ output = None
    /\ ret = NoCall
    /\ InitDispatch
    /\ InitTeam
    /\ InitSched
    /\ InitStore

NextTeamApi ==
    \/ \E c \in {CompanyId, OtherCompanyId}, g \in Goals, b \in Budgets :
         TeamNew(c, g, CreatedBy, b)
    \/ \E c \in {CompanyId, OtherCompanyId}, g \in Goals, st \in TeamStatus, b \in Budgets :
         TeamLoad(c, g, st, b)
    \/ TeamStart
    \/ TeamComplete
    \/ \E reason \in Reasons : TeamFail(reason)

SpecTeamApi == InitTeamApi /\ [][NextTeamApi]_vars

\* -------------------------------------------------------- auth/jwt.rs

\* The JWT_SECRET of the server, and a key that is not the server's.
JwtSecret == "dev-secret-key"
OtherSecret == "wrong-secret"

\* create_token: a token signed with secret that names user_id and expires 8
\* hours after clock (time is counted in hours).
CreateToken(user_id, secret, clock) ==
    [wellformed |-> TRUE, sub |-> user_id, exp |-> clock + 8, key |-> secret]

VerifyTokenSkipsSignature(token, secret, clock) ==
    IF ~token.wellformed THEN [ok |-> FALSE, err |-> "InvalidToken", val |-> Unit]
    ELSE IF token.exp <= clock THEN [ok |-> FALSE, err |-> "ExpiredSignature", val |-> Unit]
    ELSE [ok |-> TRUE, err |-> NoError, val |-> [sub |-> token.sub, exp |-> token.exp]]

\* verify_token: decode with Validation::default(), which checks the form,
\* then the signature, then that the token has not expired.
VerifyToken(token, secret, clock) ==
    IF ~token.wellformed THEN [ok |-> FALSE, err |-> "InvalidToken", val |-> Unit]
    ELSE IF token.key # secret THEN [ok |-> FALSE, err |-> "InvalidSignature", val |-> Unit]
    ELSE IF token.exp <= clock THEN [ok |-> FALSE, err |-> "ExpiredSignature", val |-> Unit]
    ELSE [ok |-> TRUE, err |-> NoError, val |-> [sub |-> token.sub, exp |-> token.exp]]

\* ------------------------------------------------------- api/errors.rs

\* ApiError::new; unauthorized, not_found and internal_server_error call it
\* with 401, 404 and 500.
ApiError(status, message) == [status |-> status, message |-> message]

\* IntoResponse for ApiError: the status and the body {"error": message}.
IntoResponse(e) == [status |-> e.status, body |-> [error |-> e.message]]

\* ----------------------------------------------- api/middleware/auth.rs

\* str::strip_prefix("Bearer ") of an Authorization header value, which is
\* the text before the token and the token.
StripBearer(header) == IF header.prefix = "Bearer " THEN Some(header.token) ELSE None

\* JwtAuth::from_request_parts; authorization is the header, or None.
JwtAuthFromRequestParts(authorization, clock) ==
    IF authorization = None
    THEN [ok |-> FALSE, err |-> ApiError(401, "Missing authorization header"), val |-> Unit]
    ELSE IF StripBearer(authorization[1]) = None
    THEN [ok |-> FALSE,
          err |-> ApiError(401, "Invalid authorization format. Use: Bearer <token>"),
          val |-> Unit]
    ELSE LET claims == VerifyToken(StripBearer(authorization[1])[1], JwtSecret, clock) IN
         IF ~claims.ok
         THEN [ok |-> FALSE, err |-> ApiError(401, "Invalid token: " \o claims.err),
               val |-> Unit]
         ELSE [ok |-> TRUE, err |-> ApiError(401, NoError), val |-> claims.val.sub]

\* ----------------------------------------------- api/handlers/teams.rs

\* From<&Team> for TeamResponse.
TeamResponse(t) ==
    [id |-> t.id, company_id |-> t.company_id, goal |-> t.goal, status |-> t.status,
     created_by |-> t.created_by, budget_limit |-> t.budget_limit]

\* get_team: its extractors are State(pool) and Path(id); db_ok says whether
\* the query of find_by_id went through.
GetTeamFn(rows, id, db_ok) ==
    IF ~db_ok
    THEN IntoResponse(ApiError(500, "Database error: Failed to find team by id"))
    ELSE IF rows[id] = None THEN IntoResponse(ApiError(404, "Team not found: " \o id))
    ELSE [status |-> 200, body |-> TeamResponse(rows[id][1])]

\* The requests sent: without header, with another scheme, and with Bearer
\* tokens that are valid, expired, signed with another key, or no token.
ValidToken == CreateToken(CreatedBy, JwtSecret, 0)

RequestTokens ==
    {ValidToken,
     CreateToken(CreatedBy, JwtSecret, -9),
     CreateToken(CreatedBy, OtherSecret, 0),
     [ValidToken EXCEPT !.wellformed = FALSE]}

RequestHeaders ==
    {None} \cup {Some([prefix |-> p, token |-> tok]) : p \in {"Bearer ", "Basic "},
                                                    tok \in RequestTokens}

\* GET /api/teams/:id, as main.rs routes it: get(teams::get_team).
HttpGetTeam(authorization, id, db_ok) ==
    /\ LET response == GetTeamFn(db_teams, id, db_ok) IN
         ret' = [NoCall EXCEPT !.op = "GET /api/teams/:id",
                   !.arg = [authorization |-> authorization, id |-> id, db_ok |-> db_ok],
                   !.ok = (response.status = 200),
                   !.val = response]
    /\ UNCHANGED <<WorkerSide, TeamVars, SchedVars, StoreVars>>

\* A handler that takes JwtAuth(user_id) runs the extractor on the request.
ExtractJwtAuth(authorization) ==
    /\ LET r == JwtAuthFromRequestParts(authorization, now) IN
         ret' = [NoCall EXCEPT !.op = "JwtAuth::from_request_parts",
                   !.arg = [authorization |-> authorization],
                   !.ok = r.ok,
                   !.val = IF r.ok THEN [status |-> 200, body |-> [user_id |-> r.val]]
                           ELSE IntoResponse(r.err)]
    /\ UNCHANGED <<WorkerSide, TeamVars, SchedVars, StoreVars>>

\* One team, in any status, is stored; the other id is not.
InitHttp ==
    /\ \E a \in Analyses :
         workers = [w \in Workers |-> FromSpec(w, TeamId, FormTeamFn(a).val[w])]
    /\ output = None
    /\ ret = NoCall
    /\ InitDispatch
    /\ InitTeam
    /\ InitSched
    /\ \E st \in TeamStatus, b \in Budgets :
         db_teams = [id \in StoredTeamIds |->
                       IF id = TeamId
                       THEN Some(FromPersistence(TeamId, CompanyId, "Protected Team", st, None,
                                                 CreatedBy, 0, None, None, b))
                       ELSE None]
    /\ db_users = [e \in StoredEmails |-> None]

NextHttp ==
    \/ \E h \in RequestHeaders, id \in StoredTeamIds, db_ok \in BOOLEAN :
         HttpGetTeam(h, id, db_ok)
    \/ \E h \in RequestHeaders : ExtractJwtAuth(h)

SpecHttp == InitHttp /\ [][NextHttp]_vars

\* ---------------------------------- auth/password.rs, api/handlers/auth.rs

\* The hours the clock runs through; a token lives 8 of them.
MaxClock == 9

\* Email::new: the address must contain '@' and have at least 3 characters.
EmailNew(email) ==
    IF Contains(email, <<"@">>) /\ Len(email) >= 3
    THEN [ok |-> TRUE, err |-> NoError, val |-> email]
    ELSE [ok |-> FALSE, err |-> "Invalid email: {email}", val |-> email]

\* hash_password: a bcrypt hash, which verifies exactly its own password.
HashPassword(password) == [bcrypt |-> TRUE, of |-> password]

\* verify_password: bcrypt::verify, an error for a malformed hash.
VerifyPassword(password, hash) ==
    IF ~hash.bcrypt THEN [ok |-> FALSE, err |-> "Invalid hash", val |-> FALSE]
    ELSE [ok |-> TRUE, err |-> NoError, val |-> (hash.of = password)]

\* The rows the users table may hold for an address: the password_hash is a
\* bcrypt hash or the string "hash", which is none; last_login is the hour of
\* the last successful login.
UserRows(email) ==
    {[id |-> CreatedBy, email |-> email,
      password_hash |-> h, is_active |-> a, last_login |-> None] :
        h \in {HashPassword("testpassword"), [bcrypt |-> FALSE, of |-> "hash"]}, a \in BOOLEAN}

LoginFnSkipsActiveCheck(users, db_ok, email, password, clock) ==
    LET denied(status, message) ==
            [users |-> users, response |-> IntoResponse(ApiError(status, message))] IN
    IF ~EmailNew(email).ok THEN denied(400, "Invalid email: Invalid email: {email}")
    ELSE IF ~db_ok THEN denied(500, "Database error: Failed to find user by email")
    ELSE IF users[email] = None THEN denied(401, "Invalid credentials")
    ELSE LET user == users[email][1]
             valid == VerifyPassword(password, user.password_hash) IN
         IF ~valid.ok THEN denied(500, "Password verification failed: Invalid hash")
         ELSE IF ~valid.val THEN denied(401, "Invalid credentials")
         ELSE [users |-> [users EXCEPT ![email] = Some([user EXCEPT !.last_login = Some(clock)])],
               response |-> [status |-> 200,
                             body |-> [token |-> CreateToken(user.id, JwtSecret, clock),
                                       user_id |-> user.id]]]

\* login: the users table after the call and the response. db_ok says
\* whether the queries went through.
LoginFn(users, db_ok, email, password, clock) ==
    LET denied(status, message) ==
            [users |-> users, response |-> IntoResponse(ApiError(status, message))] IN
    IF ~EmailNew(email).ok THEN denied(400, "Invalid email: Invalid email: {email}")
    ELSE IF ~db_ok THEN denied(500, "Database error: Failed to find user by email")
    ELSE IF users[email] = None THEN denied(401, "Invalid credentials")
    ELSE LET user == users[email][1]
             valid == VerifyPassword(password, user.password_hash) IN
         IF ~user.is_active THEN denied(401, "Account is disabled")
         ELSE IF ~valid.ok THEN denied(500, "Password verification failed: Invalid hash")
         ELSE IF ~valid.val THEN denied(401, "Invalid credentials")
         ELSE [users |-> [users EXCEPT ![email] = Some([user EXCEPT !.last_login = Some(clock)])],
               response |-> [status |-> 200,
                             body |-> [token |-> CreateToken(user.id, JwtSecret, clock),
                                       user_id |-> user.id]]]

\* POST /api/auth/login.
Login(email, password, db_ok) ==
    /\ LET r == LoginFn(db_users, db_ok, email, password, now) IN
         /\ db_users' = r.users
         /\ ret' = [NoCall EXCEPT !.op = "POST /api/auth/login",
                      !.arg = [email |-> email, password |-> password, db_ok |-> db_ok],
                      !.ok = (r.response.status = 200),
                      !.val = r.response]
    /\ UNCHANGED <<WorkerSide, TeamVars, SchedVars, db_teams>>

\* "invalid.token.string".
InvalidTokenString == [wellformed |-> FALSE, sub |-> "", exp |-> 0, key |-> ""]

\* verify_token(token, secret) at the present hour.
VerifyTokenCall(token, secret) ==
    /\ LET r == VerifyToken(token, secret, now) IN
         ret' = [NoCall EXCEPT !.op = "verify_token",
                   !.arg = [token |-> token, secret |-> secret],
                   !.ok = r.ok, !.err = r.err, !.val = r.val]
    /\ UNCHANGED <<WorkerSide, TeamVars, SchedVars, StoreVars>>

\* An hour passes.
Tick ==
    /\ now < MaxClock
    /\ now' = now + 1
    /\ UNCHANGED <<WorkerSide, team, SchedVars, StoreVars, ret>>

InitAuth ==
    /\ \E a \in Analyses :
         workers = [w \in Workers |-> FromSpec(w, TeamId, FormTeamFn(a).val[w])]
    /\ output = None
    /\ ret = NoCall
    /\ InitDispatch
    /\ InitTeam
    /\ InitSched
    /\ db_teams = [id \in StoredTeamIds |-> None]
    /\ \E row \in {None} \cup {Some(u) : u \in UserRows(UserEmail)} :
         db_users = [e \in StoredEmails |-> IF e = UserEmail THEN row ELSE None]

\* Tokens are those create_token issued at hour 0 or just now, and the
\* string that is no token; login requests carry a valid address or one that
\* Email::new rejects.
NextAuth ==
    \/ Tick
    \/ \E u \in {CreatedBy, "user-2"}, s \in {JwtSecret, OtherSecret}, issued \in {0, now} :
         \E v \in {JwtSecret, OtherSecret} :
           VerifyTokenCall(CreateToken(u, s, issued), v)
    \/ \E v \in {JwtSecret, OtherSecret} : VerifyTokenCall(InvalidTokenString, v)
    \/ \E e \in StoredEmails \cup {<<"@">>, <<"x", "y", "z">>} :
         \E p \in {"testpassword", "wrong_password"}, db_ok \in BOOLEAN : Login(e, p, db_ok)

SpecAuth == InitAuth /\ [][NextAuth]_vars

\* ---------- infrastructure/repositories/postgres_team_repository.rs

\* The teams handed to save: either id, for either company, with either goal,
\* created at hour 0 or 1.
RepoTeams ==
    {FromPersistence(id, c, g, "Pending", None, CreatedBy, at, None, None, None) :
        id \in StoredTeamIds, c \in {CompanyId, OtherCompanyId},
        g \in {"Initial Goal", "Updated Goal"}, at \in {0, 1}}

SaveFnKeepsRowOnConflict(rows, t, db_ok) ==
    IF ~db_ok THEN [rows |-> rows, ok |-> FALSE, err |-> <<"Failed to save team: ", "{e}">>]
    ELSE IF rows[t.id] = None
    THEN [rows |-> [rows EXCEPT ![t.id] = Some(t)], ok |-> TRUE, err |-> NoError]
    ELSE [rows |-> rows, ok |-> TRUE, err |-> NoError]

\* save: INSERT of all ten columns; ON CONFLICT (id) the row keeps its
\* company_id, created_by and created_at and takes the other six columns.
SaveFn(rows, t, db_ok) ==
    IF ~db_ok THEN [rows |-> rows, ok |-> FALSE, err |-> <<"Failed to save team: ", "{e}">>]
    ELSE IF rows[t.id] = None
    THEN [rows |-> [rows EXCEPT ![t.id] = Some(t)], ok |-> TRUE, err |-> NoError]
    ELSE [rows |-> [rows EXCEPT ![t.id] =
                      Some([rows[t.id][1] EXCEPT !.goal = t.goal, !.status = t.status,
                              !.manager_agent_id = t.manager_agent_id,
                              !.started_at = t.started_at,
                              !.completed_at = t.completed_at,
                              !.budget_limit = t.budget_limit])],
          ok |-> TRUE, err |-> NoError]

\* find_by_id: the row WHERE id = $1, through Team::from_persistence.
FindByIdFn(rows, id) ==
    IF rows[id] = None THEN None
    ELSE LET r == rows[id][1] IN
         Some(FromPersistence(r.id, r.company_id, r.goal, r.status, r.manager_agent_id,
                              r.created_by, r.created_at, r.started_at, r.completed_at,
                              r.budget_limit))

FindByCompanyFnAllCompanies(rows, company_id) ==
    LET found == {rows[id][1] : id \in {i \in DOMAIN rows : rows[i] # None}} IN
    {q \in [1..Cardinality(found) -> found] :
        \A i, j \in DOMAIN q : i < j => (q[i] # q[j] /\ q[i].created_at >= q[j].created_at)}

\* find_by_company: the rows WHERE company_id = $1 ORDER BY created_at DESC;
\* the results the query may give, rows of one created_at in either order.
FindByCompanyFn(rows, company_id) ==
    LET found == {rows[id][1] : id \in {i \in DOMAIN rows :
                                           rows[i] # None /\ rows[i][1].company_id = company_id}} IN
    {q \in [1..Cardinality(found) -> found] :
        \A i, j \in DOMAIN q : i < j => (q[i] # q[j] /\ q[i].created_at >= q[j].created_at)}

DeleteFnUnknownIdOk(rows, id, db_ok) ==
    IF ~db_ok THEN [rows |-> rows, ok |-> FALSE, err |-> <<"Failed to delete team: ", "{e}">>]
    ELSE [rows |-> [rows EXCEPT ![id] = None], ok |-> TRUE, err |-> NoError]

\* delete: DELETE WHERE id = $1, an error when no row was affected. An
\* error text is the sequence of its pieces.
DeleteFn(rows, id, db_ok) ==
    IF ~db_ok THEN [rows |-> rows, ok |-> FALSE, err |-> <<"Failed to delete team: ", "{e}">>]
    ELSE IF rows[id] = None
    THEN [rows |-> rows, ok |-> FALSE, err |-> <<"Team ", "not found", ": ", id>>]
    ELSE [rows |-> [rows EXCEPT ![id] = None], ok |-> TRUE, err |-> NoError]

\* str::contains, for a piece of an error text.
ErrContains(e, piece) == \E i \in DOMAIN e : e[i] = piece

\* delete_team: the response for the result of delete.
DeleteTeamFn(r) ==
    IF r.ok THEN [status |-> 204]
    ELSE IF ErrContains(r.err, "not found") THEN [status |-> 404, body |-> [error |-> r.err]]
    ELSE [status |-> 500, body |-> [error |-> <<"Failed to delete team: ">> \o r.err]]

RepoSave(t, db_ok) ==
    /\ LET r == SaveFn(db_teams, t, db_ok) IN
         /\ db_teams' = r.rows
         /\ ret' = [NoCall EXCEPT !.op = "save", !.arg = [team |-> t, db_ok |-> db_ok],
                      !.ok = r.ok, !.err = r.err]
    /\ UNCHANGED <<WorkerSide, TeamVars, SchedVars, db_users>>

RepoFindByCompany(company_id) ==
    /\ \E q \in FindByCompanyFn(db_teams, company_id) :
         ret' = [NoCall EXCEPT !.op = "find_by_company", !.arg = [company_id |-> company_id],
                   !.val = q]
    /\ UNCHANGED <<WorkerSide, TeamVars, SchedVars, StoreVars>>

\* DELETE /api/teams/:id; err is what delete returned, val the response.
HttpDeleteTeam(id, db_ok) ==
    /\ LET r == DeleteFn(db_teams, id, db_ok) IN
         /\ db_teams' = r.rows
         /\ ret' = [NoCall EXCEPT !.op = "DELETE /api/teams/:id",
                      !.arg = [id |-> id, db_ok |-> db_ok],
                      !.ok = r.ok, !.err = r.err, !.val = DeleteTeamFn(r)]
    /\ UNCHANGED <<WorkerSide, TeamVars, SchedVars, db_users>>

InitRepo ==
    /\ \E a \in Analyses :
         workers = [w \in Workers |-> FromSpec(w, TeamId, FormTeamFn(a).val[w])]
    /\ output = None
    /\ ret = NoCall
    /\ InitDispatch
    /\ InitTeam
    /\ InitSched
    /\ InitStore

NextRepo ==
    \/ \E t \in RepoTeams, db_ok \in BOOLEAN : RepoSave(t, db_ok)
    \/ \E c \in {CompanyId, OtherCompanyId} : RepoFindByCompany(c)
    \/ \E id \in StoredTeamIds, db_ok \in BOOLEAN : HttpDeleteTeam(id, db_ok)

SpecRepo == InitRepo /\ [][NextRepo]_vars

\* ------------------------------------- domain/team/team.rs, over time

\* A team as Team::new returns it (status Pending), or as a repository hands
\* it back from a row of the given status that has no timestamps yet.
InitLife(statuses) ==
    /\ \E a \in Analyses :
         workers = [w \in Workers |-> FromSpec(w, TeamId, FormTeamFn(a).val[w])]
    /\ output = None
    /\ ret = NoCall
    /\ InitDispatch
    /\ now = 0
    /\ \E c \in {CompanyId, OtherCompanyId}, b \in Budgets, st \in statuses :
         /\ TeamNewFn(c, "Complete mission", CreatedBy, b, 0).ok
         /\ team = FromPersistence(TeamId, c, "Complete mission", st, None, CreatedBy, 0,
                                   None, None, b)
    /\ InitSched
    /\ InitStore

\* The operations of the aggregate on a team, while the clock runs.
NextLife ==
    \/ Tick
    \/ TeamStart
    \/ TeamComplete
    \/ \E reason \in Reasons : TeamFail(reason)

SpecLife == InitLife({"Pending", "Planning"}) /\ [][NextLife]_vars

\* Every operation that stays possible is taken at some time.
SpecLifeFair ==
    /\ InitLife({"Pending"})
    /\ [][NextLife]_vars
    /\ SF_vars(Tick)
    /\ SF_vars(TeamStart)
    /\ SF_vars(TeamComplete)
    /\ \A reason \in Reasons : SF_vars(TeamFail(reason))

\* ------------------------------------------------------------------ claims

TheWorker == workers[ret.worker]

\* C1: assign_task succeeds iff the worker was Idle; on success the worker is
\* Working with the task of the call; on a Working or Blocked worker it fails
\* with TaskExecutionFailed and status and assigned task stay as they were.
C1_AssignTaskIffIdle ==
    ret.op = "assign_task" =>
        /\ ret.ok <=> ret.pre_status = "Idle"
        /\ ret.ok =>
             /\ TheWorker.status = "Working"
             /\ TheWorker.assigned_task_id = Some(ret.task)
        /\ ret.pre_status \in {"Working", "Blocked"} =>
             /\ ~ret.ok
             /\ ret.err = "TaskExecutionFailed"
             /\ TheWorker.status = ret.pre_status
             /\ TheWorker.assigned_task_id = ret.pre_task

\* A Blocked worker that holds a task was asked to take another one.
C1_Witness ==
    /\ ret.op = "assign_task"
    /\ ret.pre_status = "Blocked"
    /\ ret.pre_task # None
    /\ ret.pre_task # Some(ret.task)

\* C2: a worker made by from_spec starts Idle with no task, and after any
\* calls of assign_task, execute_task and report_progress each worker holds at
\* most one task, is Idle iff it holds none, and holds one when Working.
C2_StatusMatchesAssignment ==
    \A w \in Workers :
        /\ ret.op = "none" =>
             workers[w].status = "Idle" /\ workers[w].assigned_task_id = None
        /\ Len(workers[w].assigned_task_id) <= 1
        /\ workers[w].status = "Idle" <=> workers[w].assigned_task_id = None
        /\ workers[w].status = "Working" =>
             \E t \in TaskIds : workers[w].assigned_task_id = Some(t)

\* One worker is Working on a task it executed, another is still Idle.
C2_Witness ==
    /\ ret.op = "execute_task"
    /\ ret.ok
    /\ TheWorker.status = "Working"
    /\ \E w \in Workers : workers[w].status = "Idle"

\* C3: a worker holding a task is Working, and once review_task has Approved
\* (or Rejected) the output of a worker's task, that worker is Idle with no
\* assigned task again.
C3_ReviewFreesWorker ==
    /\ \A w \in Workers :
         workers[w].assigned_task_id # None => workers[w].status = "Working"
    /\ (ret.op = "review_task" /\ ret.val \in {"Approved", "Rejected"}) =>
         /\ TheWorker.status = "Idle"
         /\ TheWorker.assigned_task_id = None

DoneOn(w) == {d \in Dispatchers : dpc[d] = "done" /\ dargs[d].worker = w}

\* C4: of the concurrent assign_task calls on one Idle worker at most one
\* returns Ok, the worker then holds that call's task, every other finished
\* call returned TaskExecutionFailed, and a call fails only after one won.
C4_ExactlyOneAssignWins ==
    \A w \in Workers :
        LET won == {d \in DoneOn(w) : dres[d] = "Ok"} IN
        /\ Cardinality(won) <= 1
        /\ \A d \in won :
             /\ workers[w].status = "Working"
             /\ workers[w].assigned_task_id = Some(dargs[d].task)
        /\ \A d \in DoneOn(w) \ won : dres[d] = "TaskExecutionFailed"
        /\ DoneOn(w) # {} => won # {}

\* Every dispatcher chose the same worker; one won, all the others lost.
C4_Witness ==
    \E w \in Workers :
        /\ DoneOn(w) = Dispatchers
        /\ \E d \in Dispatchers : dres[d] = "Ok"
        /\ \E d \in Dispatchers : dres[d] = "TaskExecutionFailed"

\* C7: execute_task fails, with TaskExecutionFailed, iff the worker has no
\* assigned task; otherwise it returns a TaskOutput.
C7_ExecuteFailsIffUnassigned ==
    ret.op = "execute_task" =>
        /\ ~ret.ok <=> ret.pre_task = None
        /\ ~ret.ok => ret.err = "TaskExecutionFailed"
        /\ ret.ok =>
             /\ output = Some(ret.val)
             /\ ret.val.worker_id = ret.worker
             /\ ret.val.logs = <<"Task executed successfully">>

\* A worker that is not Working but holds a task executed it.
C7_Witness ==
    /\ ret.op = "execute_task"
    /\ ret.ok
    /\ ret.pre_status = "Blocked"

\* C8: execute_task leaves status and assigned task as they were, whether it
\* fails or not, and no call but a successful assign_task changes any status.
C8_ExecuteTaskChangesNothing ==
    /\ [](ret.op = "execute_task" =>
            /\ TheWorker.status = ret.pre_status
            /\ TheWorker.assigned_task_id = ret.pre_task)
    /\ [][\A w \in Workers :
            workers'[w].status # workers[w].status =>
                ret'.op = "assign_task" /\ ret'.worker = w /\ ret'.ok]_vars

\* A Working worker executed its task and is still Working on it.
C8_Witness ==
    /\ ret.op = "execute_task"
    /\ ret.ok
    /\ ret.pre_status = "Working"
    /\ ret.pre_task = Some(ret.task)

ClaimLower(str) == [i \in 1..Len(str) |-> ToLowerChar(str[i])]

IsSubstring(needle, hay) ==
    \E k \in 0..(Len(hay) - Len(needle)) : SubSeq(hay, k + 1, k + Len(needle)) = needle

\* C5: can_handle_task is true iff some required skill, lower-cased, is a
\* substring of some skill of the worker, lower-cased; with no required skill
\* or no worker skill it is false.
C5_CanHandleIffSubstring ==
    ret.op = "can_handle_task" =>
        LET skills == TheWorker.skills
            required == ret.arg IN
        /\ ret.val <=>
             \E i \in 1..Len(required), j \in 1..Len(skills) :
                 IsSubstring(ClaimLower(required[i]), ClaimLower(skills[j]))
        /\ (required = <<>> \/ skills = <<>>) => ~ret.val

\* The worker can handle the task though no required skill is spelled as one
\* of its skills is.
C5_Witness ==
    /\ ret.op = "can_handle_task"
    /\ ret.val
    /\ \A i \in 1..Len(ret.arg), j \in 1..Len(TheWorker.skills) :
           ret.arg[i] # TheWorker.skills[j] /\ ret.arg[i] # EmptyString

\* C6: form_team returns between 3 and 5 WorkerSpecs; a result of any other
\* size is not returned as success, the error is InvalidTeamSize.
C6_FormTeamSize ==
    ret.op = "form_team" =>
        /\ ret.ok => Len(ret.val) \in 3..5
        /\ ~ret.ok => ret.err = "InvalidTeamSize"
        /\ ret.ok

\* form_team returned for an analysis that asks for six specializations.
C6_Witness ==
    /\ ret.op = "form_team"
    /\ Len(ret.arg.required_specializations) > 5

\* C10: the worker's Specialization is the variant named exactly as the
\* spec's string, Researcher for every other string, and creation succeeds.
C10_SpecializationByExactName ==
    ret.op = "from_spec" =>
        LET name == ret.arg.specialization
            got == TheWorker.specialization IN
        /\ ret.ok
        /\ got \in Specialization
        /\ \A v \in Specialization : SpecializationDisplay(v) = name => got = v
        /\ (\A v \in Specialization : SpecializationDisplay(v) # name) =>
             got = "Specialization::Researcher"

\* A name that differs from a variant's only in case gave a Researcher.
C10_Witness ==
    /\ ret.op = "from_spec"
    /\ ret.arg.specialization = "coder"
    /\ TheWorker.specialization = "Specialization::Researcher"

\* The transition tables: a worker takes a task only from Idle; a team moves
\* as the Status Transitions list of TeamStatus says.
AllowedTransitions ==
    {<<"Idle", "Working">>,
     <<"Pending", "Planning">>, <<"Planning", "Active">>, <<"Active", "Completed">>,
     <<"Active", "Failed">>, <<"Completed", "Archived">>, <<"Failed", "Archived">>}

\* The status each operation tries to move its receiver to.
TransitionTarget ==
    [x \in {"assign_task", "Team::start", "Team::complete", "Team::fail"} |->
        CASE x = "assign_task" -> "Working"
          [] x = "Team::start" -> "Active"
          [] x = "Team::complete" -> "Completed"
          [] x = "Team::fail" -> "Failed"]

InvalidAttempt ==
    /\ ret.op \in DOMAIN TransitionTarget
    /\ <<ret.pre_status, TransitionTarget[ret.op]>> \notin AllowedTransitions

StatusAfter == IF ret.op = "assign_task" THEN TheWorker.status ELSE team.status

\* C9 as claimed: every attempted transition outside the table fails with
\* InvalidStateTransition and leaves the status as it was.
C9_InvalidStateTransitionError ==
    InvalidAttempt =>
        /\ ~ret.ok
        /\ ret.err = "InvalidStateTransition"
        /\ StatusAfter = ret.pre_status

TeamVerb ==
    [x \in {"Team::start", "Team::complete", "Team::fail"} |->
        CASE x = "Team::start" -> "start"
          [] x = "Team::complete" -> "complete"
          [] x = "Team::fail" -> "fail"]

\* C9 as amended: every attempted transition outside the table fails and
\* leaves the status as it was; the error is TaskExecutionFailed for a worker
\* and the message "Cannot <verb> team in <status> status" for a team.
C9_InvalidTransitionFails ==
    InvalidAttempt =>
        /\ ~ret.ok
        /\ StatusAfter = ret.pre_status
        /\ ret.op = "assign_task" => ret.err = "TaskExecutionFailed"
        /\ ret.op # "assign_task" =>
             ret.err = "Cannot " \o TeamVerb[ret.op] \o " team in " \o ret.pre_status
                           \o " status"

\* start was tried on a Pending team, which has to go through Planning.
C9_Witness ==
    /\ ret.op = "Team::start"
    /\ ret.pre_status = "Pending"
    /\ team.status = "Pending"

ClaimCanHandle(skills, req) ==
    \E i \in 1..Len(req), j \in 1..Len(skills) :
        IsSubstring(ClaimLower(req[i]), ClaimLower(skills[j]))

NoIdleWorkerCanHandle(t) ==
    \A w \in Workers :
        workers[w].status = "Idle" => ~ClaimCanHandle(workers[w].skills, task_required[t])

\* C11: a dispatch of a Pending task while no Idle worker has a skill that
\* contains, ignoring case, a required skill of the task leaves the task
\* Pending, leaves every worker as it was and publishes no event.
C11_NoMatchLeavesPending ==
    [][\A t \in TaskIds :
         (ret'.op = "dispatch" /\ ret'.task = t /\ TaskPending(t)
            /\ NoIdleWorkerCanHandle(t)) =>
             /\ TaskPending(t)'
             /\ workers' = workers
             /\ events' = events]_vars

\* A dispatch found no worker: the worker that could handle the task is busy
\* with another one, and an Idle worker is there that cannot handle it.
C11_Witness ==
    /\ ret.op = "dispatch"
    /\ ret.worker = 0
    /\ TaskPending(ret.task)
    /\ \E w \in Workers :
         /\ workers[w].status = "Idle"
         /\ ~ClaimCanHandle(workers[w].skills, task_required[ret.task])
    /\ \E w \in Workers :
         /\ workers[w].status = "Working"
         /\ ClaimCanHandle(workers[w].skills, task_required[ret.task])
    /\ Len(events) = 1

AllApproved == \A t \in TaskIds : TaskApproved(t)

\* A terminal condition: the team has failed, or a Pending task is blocked
\* because no worker of the team can handle it.
TerminalCondition ==
    \/ team.status = "Failed"
    \/ \E t \in TaskIds :
         /\ TaskPending(t)
         /\ \A w \in Workers : ~ClaimCanHandle(workers[w].skills, task_required[t])

C15_RenderSubstitutes ==
    ret.op = "render" =>
        LET tpl == ret.arg.template.user_template
            variables == ret.arg.variables IN
        /\ Len(ret.val) = Len(tpl)
        /\ \A i \in 1..Len(tpl), n \in DOMAIN variables :
               /\ tpl[i] = Placeholder(n) => ret.val[i] = variables[n]
               /\ ret.val[i] # Placeholder(n)

SixTransitions ==
    {<<"Pending", "Planning">>, <<"Planning", "Active">>, <<"Active", "Completed">>,
     <<"Active", "Failed">>, <<"Completed", "Archived">>, <<"Failed", "Archived">>}

RECURSIVE StatusesAfter(_, _)
\* The statuses a team in status s can be in after 1 to n permitted transitions.
StatusesAfter(s, n) ==
    IF n = 0 THEN {}
    ELSE LET next == {b \in TeamStatus : CanTransitionTo(s, b)} IN
         next \cup UNION {StatusesAfter(b, n - 1) : b \in next}

\* C16: can_transition_to(a, b) is true for the six listed pairs and for no
\* other pair; Archived has no successor, no status follows itself, and no
\* chain of permitted transitions comes back to a status it left.
C16_ExactlySixTransitions ==
    /\ ret.op = "can_transition_to" =>
         /\ ret.val <=> ret.arg \in SixTransitions
         /\ ret.arg[1] = "Archived" => ~ret.val
         /\ ret.arg[1] = ret.arg[2] => ~ret.val
    /\ \A st \in TeamStatus : st \notin StatusesAfter(st, Cardinality(TeamStatus))

\* A failed team is asked whether it can be Pending again: it cannot.
C16_Witness ==
    /\ ret.op = "can_transition_to"
    /\ ret.arg = <<"Failed", "Pending">>
    /\ ret.val = FALSE

\* C17: start succeeds iff the team is Planning and makes it Active, complete
\* succeeds iff it is Active and makes it Completed, fail succeeds iff it is
\* Active and makes it Failed; a call that fails leaves the status, and start
\* on a Pending team, such as one just created, fails.
C17_LifecycleIffPermitted ==
    /\ ret.op = "Team::start" =>
         /\ ret.ok <=> ret.pre_status = "Planning"
         /\ ret.ok => team.status = "Active"
         /\ ret.pre_status = "Pending" => ~ret.ok
    /\ ret.op = "Team::complete" =>
         /\ ret.ok <=> ret.pre_status = "Active"
         /\ ret.ok => team.status = "Completed"
    /\ ret.op = "Team::fail" =>
         /\ ret.ok <=> ret.pre_status = "Active"
         /\ ret.ok => team.status = "Failed"
    /\ (ret.op \in {"Team::start", "Team::complete", "Team::fail"} /\ ~ret.ok) =>
         team.status = ret.pre_status

\* A team that was started has been completed.
C17_Witness ==
    /\ ret.op = "Team::complete"
    /\ ret.ok
    /\ team.started_at # None
    /\ team.status = "Completed"

\* The documented invariants of a Team: the goal is not empty and the budget
\* limit, if there is one, is strictly positive.
TeamInvariants(t) ==
    /\ t.goal # ""
    /\ t.budget_limit # None => t.budget_limit[1] > 0

InvalidNewArguments ==
    \/ ret.arg.goal = ""
    \/ ret.arg.budget_limit # None /\ ret.arg.budget_limit[1] <= 0

\* Team::new with an invalid argument fails and gives neither team nor event.
NewRejectsInvalid ==
    (ret.op = "Team::new" /\ InvalidNewArguments) =>
        /\ ~ret.ok
        /\ ret.val = Unit

\* C18 as claimed: the team held satisfies the documented invariants in every
\* reachable state, whichever public function made it, and Team::new rejects
\* an empty goal and a zero or negative budget.
C18_TeamInvariantsAlways ==
    /\ TeamInvariants(team)
    /\ NewRejectsInvalid

\* C18 as amended: Team::new rejects an empty goal and a zero or negative
\* budget, a team it returns satisfies the invariants, and start, complete and
\* fail keep goal and budget limit; from_persistence returns the goal and
\* budget limit it was given.
C18_NewValidatesLoadDoesNot ==
    /\ [](/\ NewRejectsInvalid
          /\ (ret.op = "Team::new" /\ ret.ok) =>
               /\ ~InvalidNewArguments
               /\ team = ret.val.team
               /\ TeamInvariants(team)
          /\ ret.op = "Team::from_persistence" =>
               /\ team.goal = ret.arg.goal
               /\ team.budget_limit = ret.arg.budget_limit)
    /\ [][ret'.op \in {"Team::start", "Team::complete", "Team::fail"} =>
            /\ team'.goal = team.goal
            /\ team'.budget_limit = team.budget_limit]_vars

\* Team::new was refused a budget of zero.
C18_Witness ==
    /\ ret.op = "Team::new"
    /\ ~ret.ok
    /\ ret.arg.goal # ""
    /\ ret.arg.budget_limit = Some(0)
    /\ ret.err = "Budget must be positive"

\* C19: a successful Team::new returns a Pending team without manager, start
\* time or completion time, and exactly one event, a Created event with the
\* team's id and the company, goal and creator of the call.
C19_NewTeamIsPendingWithCreated ==
    (ret.op = "Team::new" /\ ret.ok) =>
        LET t == ret.val.team
            evs == ret.val.events IN
        /\ t.status = "Pending"
        /\ t.manager_agent_id = None
        /\ t.started_at = None
        /\ t.completed_at = None
        /\ Len(evs) = 1
        /\ evs[1] = [event |-> "Created", team_id |-> t.id,
                     company_id |-> ret.arg.company_id, goal |-> ret.arg.goal,
                     created_by |-> ret.arg.created_by]
        /\ t.company_id = ret.arg.company_id
        /\ t.goal = ret.arg.goal
        /\ t.created_by = ret.arg.created_by

\* A team with a budget was created in place of a completed one.
C19_Witness ==
    /\ ret.op = "Team::new"
    /\ ret.ok
    /\ ret.pre_status = "Completed"
    /\ ret.arg.company_id = OtherCompanyId
    /\ team.budget_limit = Some(1)
    /\ team.status = "Pending"

\* The request carries a Bearer token that the server issued and that has not
\* expired.
ValidBearer(authorization) ==
    /\ authorization # None
    /\ authorization[1].prefix = "Bearer "
    /\ authorization[1].token.wellformed
    /\ authorization[1].token.key = JwtSecret
    /\ authorization[1].token.exp > now

\* C20: GET /api/teams/{id} without Authorization header is answered 401 with
\* the error "Missing authorization header" and never with the team; with a
\* valid Bearer token the stored team is returned with 200. (Stated for the
\* requests whose database lookup goes through.)
C20_GetTeamRequiresAuth ==
    (ret.op = "GET /api/teams/:id" /\ ret.arg.db_ok) =>
        /\ ret.arg.authorization = None =>
             /\ ret.val.status = 401
             /\ ret.val.body = [error |-> "Missing authorization header"]
        /\ (ValidBearer(ret.arg.authorization) /\ db_teams[ret.arg.id] # None) =>
             /\ ret.val.status = 200
             /\ ret.val.body.id = ret.arg.id

\* C21: a token create_token(u, s) verifies under s, while it has not
\* expired, with claims whose sub is u; it fails under every other secret;
\* and a string that is no token issued under the secret never verifies.
C21_TokenRoundTrip ==
    ret.op = "verify_token" =>
        LET token == ret.arg.token IN
        /\ (token.wellformed /\ token.key = ret.arg.secret /\ token.exp > now) =>
             (ret.ok /\ ret.val.sub = token.sub)
        /\ (~token.wellformed \/ token.key # ret.arg.secret) => ~ret.ok

\* A token of user-2, signed with the other secret, verified under that
\* secret.
C21_Witness ==
    /\ ret.op = "verify_token"
    /\ ret.arg.token = CreateToken("user-2", OtherSecret, now)
    /\ ret.arg.secret = OtherSecret
    /\ ret.ok
    /\ ret.val.sub = "user-2"

\* The login request names a stored, active user and carries the password
\* of the stored hash.
LoginCredentialsHold ==
    /\ EmailNew(ret.arg.email).ok
    /\ db_users[ret.arg.email] # None
    /\ db_users[ret.arg.email][1].is_active
    /\ VerifyPassword(ret.arg.password, db_users[ret.arg.email][1].password_hash).ok
    /\ VerifyPassword(ret.arg.password, db_users[ret.arg.email][1].password_hash).val

\* C25: login answers 200 with a token only if a user with the email exists,
\* is active and the password verifies against the stored hash; every other
\* answer is an error without token; the token of a success carries the
\* user's id as subject.
C25_LoginOnlyWithCredentials ==
    ret.op = "POST /api/auth/login" =>
        /\ ret.val.status = 200 =>
             /\ LoginCredentialsHold
             /\ ret.val.body.token.sub = db_users[ret.arg.email][1].id
             /\ ret.val.body.token.wellformed
             /\ ret.val.body.token.key = JwtSecret
             /\ ret.val.body.user_id = db_users[ret.arg.email][1].id
        /\ ret.val.status # 200 =>
             /\ ret.val.status \in {400, 401, 500}
             /\ DOMAIN ret.val.body = {"error"}
        /\ ~LoginCredentialsHold => ret.val.status # 200

\* A login that succeeded, and whose token names the user.
C25_Witness ==
    /\ ret.op = "POST /api/auth/login"
    /\ ret.val.status = 200
    /\ ret.val.body.token.sub = CreatedBy
    /\ now > 0

\* C30: a denied login answers the same (status and message) whether or not
\* a user with the email exists, whatever the user's active flag. The answer
\* is compared with the one login gives on the users table without the row,
\* for rows whose password_hash is a bcrypt hash.
C30_DeniedLoginHidesAccount ==
    (/\ ret.op = "POST /api/auth/login"
     /\ ret.arg.db_ok
     /\ EmailNew(ret.arg.email).ok
     /\ db_users[ret.arg.email] # None
     /\ VerifyPassword(ret.arg.password, db_users[ret.arg.email][1].password_hash).ok
     /\ ~VerifyPassword(ret.arg.password, db_users[ret.arg.email][1].password_hash).val) =>
        ret.val = LoginFn([db_users EXCEPT ![ret.arg.email] = None], TRUE, ret.arg.email,
                          ret.arg.password, now).response

\* What find_by_id gives for the team last saved.
FoundAfterSave == FindByIdFn(db_teams, ret.arg.team.id)

\* A second save of the team last saved leaves the table as it is.
SaveAgainChangesNothing == SaveFn(db_teams, ret.arg.team, TRUE).rows = db_teams

C23_FindByCompanyIsolatesTenants ==
    ret.op = "find_by_company" =>
        /\ \A i \in DOMAIN ret.val : ret.val[i].company_id = ret.arg.company_id
        /\ {ret.val[i] : i \in DOMAIN ret.val}
             = {db_teams[id][1] : id \in {k \in StoredTeamIds :
                                            /\ db_teams[k] # None
                                            /\ db_teams[k][1].company_id = ret.arg.company_id}}
        /\ \A i, j \in DOMAIN ret.val : ret.val[i] = ret.val[j] => i = j

\* Both companies hold a team, and the query for one company gave its team.
C23_Witness ==
    /\ ret.op = "find_by_company"
    /\ Len(ret.val) = 1
    /\ \A id \in StoredTeamIds : db_teams[id] # None
    /\ \E id \in StoredTeamIds : db_teams[id][1].company_id # ret.arg.company_id

\* C24: a delete that succeeds removes the row, so that find_by_id gives
\* None, and leaves the other rows; a delete of an id that is not stored
\* returns a "not found" error, which DELETE /api/teams/{id} answers with
\* 404, and leaves the table unchanged.
C24_DeleteRemovesOrReportsNotFound ==
    [][ret'.op = "DELETE /api/teams/:id" =>
         LET id == ret'.arg.id IN
         /\ ret'.ok =>
              /\ db_teams[id] # None
              /\ FindByIdFn(db_teams', id) = None
              /\ \A k \in StoredTeamIds \ {id} : db_teams'[k] = db_teams[k]
              /\ ret'.val.status = 204
         /\ ~ret'.ok => db_teams' = db_teams
         /\ (ret'.arg.db_ok /\ db_teams[id] = None) =>
              /\ ~ret'.ok
              /\ ErrContains(ret'.err, "not found")
              /\ ret'.val.status = 404]_vars

\* A second delete of an id, answered 404, while the other team is stored.
C24_Witness ==
    /\ ret.op = "DELETE /api/teams/:id"
    /\ ret.arg.id = TeamId
    /\ ret.val.status = 404
    /\ db_teams["team-2"] # None

C27_OutputNamesAssignedTask ==
    (ret.op = "execute_task" /\ ret.ok) =>
        /\ ret.val.worker_id = ret.worker
        /\ ret.pre_task = Some(ret.val.task_id)

\* Whatever the operations of the aggregate do to a team made by Team::new,
\* it stays Pending.
NewTeamStaysPending == team.status = "Pending"

\* C28: a team made by Team::new comes to Planning, then to Active, then to
\* Completed or Failed, by the operations of the aggregate.
C28_LifecycleReached ==
    <>(team.status = "Planning"
         /\ <>(team.status = "Active" /\ <>(team.status \in {"Completed", "Failed"})))

\* C29: a start, complete or fail that returns an error leaves the team as
\* it was and gives no event; one that succeeds gives one event of its kind
\* (Started, Completed, Failed) with the team's id.
C29_ErrorsChangeNothing ==
    [][ret'.op \in {"Team::start", "Team::complete", "Team::fail"} =>
         /\ ~ret'.ok => (team' = team /\ ret'.val = Unit)
         /\ ret'.ok =>
              /\ ret'.val.team_id = team.id
              /\ ret'.val.event = (CASE ret'.op = "Team::start" -> "Started"
                                     [] ret'.op = "Team::complete" -> "Completed"
                                     [] ret'.op = "Team::fail" -> "Failed")
              /\ team'.id = team.id]_vars

\* A fail that a Completed team refused.
C29_Witness ==
    /\ ret.op = "Team::fail"
    /\ ~ret.ok
    /\ ret.pre_status = "Completed"
    /\ team.status = "Completed"

====
